---- MODULE Spec2Model ----
(***************************************************************************)
(* Geometric primitives of rtreego (geom.go): points, axis-aligned         *)
(* rectangles, the two nearest-neighbour pruning bounds (minDist,          *)
(* minMaxDist) and the rectangle algebra (NewRect, ToRect, enlarge,        *)
(* boundingBox, Intersect, ContainsPoint, ContainsRect, margin).           *)
(*                                                                         *)
(* float64 coordinates are modelled by small integers, on which every      *)
(* float64 operation used here (+, -, *, comparison) is exact.  The        *)
(* midpoint test  p[k] <= (r.P[k]+r.Q[k])/2  is written                    *)
(* 2*p[k] <= r.P[k]+r.Q[k], which is the same comparison without the       *)
(* division.  Arrays keep the source's indices 0..Dim-1.                   *)
(***************************************************************************)
EXTENDS Integers, Sequences, FiniteSets, TLC

VARIABLES
    Dim,      \* the dimensionality constant shared by every Point and Rect
    p,        \* a Point: receiver of minDist/minMaxDist/ToRect, corner of NewRect
    r1,       \* a Rect: first argument / receiver of enlarge
    r2,       \* a Rect: second argument
    lengths,  \* the [Dim]float64 argument of NewRect
    tol,      \* the argument of ToRect
    r0,       \* value of r1 before the first enlarge call
    pre,      \* value of r1 when the latest enlarge call began
    hist,     \* the arguments of the enlarge calls made so far, in order
    op,       \* name of the latest call
    ret       \* what the latest call returned

vars == <<Dim, p, r1, r2, lengths, tol, r0, pre, hist, op, ret>>

-----------------------------------------------------------------------------
(* Bounds of the model *)

\* coordinates of the point/rectangle specification range over 0..MaxCoord
MaxCoord == 2
\* lengths and tolerances range over -MaxLen..MaxLen
MaxLen == 2
\* coordinates of the two-rectangle specifications range over 0..PairCoord
PairCoord == 1
\* coordinates of the enlarge specification range over 0..EnlCoord
EnlCoord == 1
\* number of enlarge calls with an argument in one behaviour
MaxCalls == 2

\* values of the constant Dim: 3 is the dimension the source documents,
\* 2 the dimension of the worked examples
Dims == {2, 3}

\* math.MaxFloat64, the largest finite value of the number type
MaxFloat64 == 2147483647

DimIdx == 0 .. (Dim - 1)

Points(n) == [DimIdx -> 0 .. n]

\* rectangles with P[i] <= Q[i] in every dimension
Rects(n) == {r \in [P : Points(n), Q : Points(n)] : \A i \in DimIdx : r.P[i] <= r.Q[i]}

ZeroPoint == [i \in DimIdx |-> 0]
ZeroRect == [P |-> ZeroPoint, Q |-> ZeroPoint]

-----------------------------------------------------------------------------
(* Point.minDist *)

minDistStepFar(pi, a, b) ==
    IF pi < a THEN (pi - b) * (pi - b)
    ELSE IF pi > b THEN (pi - a) * (pi - a)
    ELSE 0

\* body of the loop: the contribution of one dimension, a = r.P[i], b = r.Q[i]
minDistStep(pi, a, b) ==
    IF pi < a THEN (pi - a) * (pi - a)
    ELSE IF pi > b THEN (pi - b) * (pi - b)
    ELSE 0

RECURSIVE minDistLoop(_, _, _, _)
minDistLoop(pt, r, i, sum) ==
    IF i = Dim THEN sum
    ELSE minDistLoop(pt, r, i + 1, sum + minDistStep(pt[i], r.P[i], r.Q[i]))

minDist(pt, r) == minDistLoop(pt, r, 0, 0)

-----------------------------------------------------------------------------
(* Point.minMaxDist *)

rmAlwaysP(pt, r, k) == r.P[k]

rm(pt, r, k) == IF 2 * pt[k] <= r.P[k] + r.Q[k] THEN r.P[k] ELSE r.Q[k]

rM(pt, r, k) == IF 2 * pt[k] >= r.P[k] + r.Q[k] THEN r.P[k] ELSE r.Q[k]

RECURSIVE SLoop(_, _, _, _)
SLoop(pt, r, i, S) ==
    IF i = Dim THEN S
    ELSE LET d == pt[i] - rM(pt, r, i) IN SLoop(pt, r, i + 1, S + d * d)

RECURSIVE minLoop(_, _, _, _, _)
minLoop(pt, r, S, k, min) ==
    IF k = Dim THEN min
    ELSE LET d1 == pt[k] - rM(pt, r, k)
             d2 == pt[k] - rm(pt, r, k)
             d  == S - d1 * d1 + d2 * d2
         IN minLoop(pt, r, S, k + 1, IF d < min THEN d ELSE min)

minMaxDist(pt, r) == minLoop(pt, r, SLoop(pt, r, 0, 0), 0, MaxFloat64)

-----------------------------------------------------------------------------
(* Rect.ContainsPoint, Rect.ContainsRect *)

ContainsPoint(r, pt) == \A i \in DimIdx : ~(pt[i] < r.P[i] \/ pt[i] > r.Q[i])

ContainsRect(ra, rb) == \A i \in DimIdx : ~(ra.P[i] > rb.P[i] \/ rb.Q[i] > ra.Q[i])

-----------------------------------------------------------------------------
(* Specification of the point/rectangle metrics *)

Idle ==
    /\ lengths = ZeroPoint
    /\ tol = 0
    /\ r0 = ZeroRect
    /\ pre = ZeroRect
    /\ hist = <<>>
    /\ op = "init"
    /\ ret = 0

InitDist ==
    /\ Dim \in Dims
    /\ p \in Points(MaxCoord)
    /\ r1 \in Rects(MaxCoord)
    /\ r2 = ZeroRect
    /\ Idle

CallMinDist ==
    /\ op' = "minDist"
    /\ ret' = minDist(p, r1)
    /\ UNCHANGED <<Dim, p, r1, r2, lengths, tol, r0, pre, hist>>

CallMinMaxDist ==
    /\ op' = "minMaxDist"
    /\ ret' = minMaxDist(p, r1)
    /\ UNCHANGED <<Dim, p, r1, r2, lengths, tol, r0, pre, hist>>

CallContainsPoint ==
    /\ op' = "ContainsPoint"
    /\ ret' = ContainsPoint(r1, p)
    /\ UNCHANGED <<Dim, p, r1, r2, lengths, tol, r0, pre, hist>>

NextDist == CallMinDist \/ CallMinMaxDist \/ CallContainsPoint

SpecDist == InitDist /\ [][NextDist]_vars

-----------------------------------------------------------------------------
(* DistError, NewRect, Point.ToRect *)

\* the error value: nil, or a DistError carrying a number
nil == [set |-> FALSE, val |-> 0]

DistError(l) == [set |-> TRUE, val |-> l]

improperStrict(l) == l < 0

\* the test that rejects a length
improper(l) == l <= 0

\* the loop ranges over a copy ls of r.Q taken before the first iteration
RECURSIVE NewRectLoop(_, _, _)
NewRectLoop(r, ls, i) ==
    IF i = Dim THEN [r |-> r, err |-> nil]
    ELSE IF improper(ls[i]) THEN [r |-> r, err |-> DistError(ls[i])]
    ELSE NewRectLoop([r EXCEPT !.Q[i] = r.Q[i] + r.P[i]], ls, i + 1)

NewRect(pt, ls) == NewRectLoop([P |-> pt, Q |-> ls], ls, 0)

ToRect(pt, t) ==
    [P |-> [i \in DimIdx |-> pt[i] - t], Q |-> [i \in DimIdx |-> pt[i] + t]]

-----------------------------------------------------------------------------
(* Rect.margin *)

RECURSIVE marginLoop(_, _, _)
marginLoop(r, i, sum) ==
    IF i = Dim THEN sum ELSE marginLoop(r, i + 1, sum + (r.Q[i] - r.P[i]))

margin(r) == 4 * marginLoop(r, 0, 0)

-----------------------------------------------------------------------------
(* Rect.enlarge, initBoundingBox, boundingBox.  These work through         *)
(* pointers: h maps the name of each Rect object to its value, x and y are *)
(* the names the pointers r1 and r2 of the call refer to (possibly the     *)
(* same object), and the result is h after the call.                       *)

enlargeStepAssign(h, x, y, i) ==
    [h EXCEPT ![x].P[i] = h[y].P[i], ![x].Q[i] = h[y].Q[i]]

enlargeStepLowOnly(h, x, y, i) ==
    IF h[x].P[i] > h[y].P[i] THEN [h EXCEPT ![x].P[i] = h[y].P[i]] ELSE h

\* body of the loop for dimension i
enlargeStep(h, x, y, i) ==
    LET h1 == IF h[x].P[i] > h[y].P[i] THEN [h EXCEPT ![x].P[i] = h[y].P[i]] ELSE h
    IN IF h1[x].Q[i] < h1[y].Q[i] THEN [h1 EXCEPT ![x].Q[i] = h1[y].Q[i]] ELSE h1

RECURSIVE enlargeLoop(_, _, _, _)
enlargeLoop(h, x, y, i) ==
    IF i = Dim THEN h ELSE enlargeLoop(enlargeStep(h, x, y, i), x, y, i + 1)

enlarge(h, x, y) == enlargeLoop(h, x, y, 0)

initBoundingBox(h, r, x, y) == enlarge([h EXCEPT ![r] = h[x]], r, y)

\* the new Rect is the object "r" of the returned heap
boundingBox(h, x, y) == initBoundingBox(("r" :> ZeroRect) @@ h, "r", x, y)

-----------------------------------------------------------------------------
(* Intersect *)

IntersectClosed(ra, rb) ==
    \A i \in DimIdx : ~(rb.Q[i] < ra.P[i] \/ ra.Q[i] < rb.P[i])

Intersect(ra, rb) ==
    \A i \in DimIdx : ~(rb.Q[i] <= ra.P[i] \/ ra.Q[i] <= rb.P[i])

-----------------------------------------------------------------------------
(* Specification of the constructors *)

Lens == (0 - MaxLen) .. MaxLen

InitNew ==
    /\ Dim \in Dims
    /\ p \in Points(MaxCoord)
    /\ lengths \in [DimIdx -> Lens]
    /\ tol \in Lens
    /\ r1 = ZeroRect
    /\ r2 = ZeroRect
    /\ r0 = ZeroRect
    /\ pre = ZeroRect
    /\ hist = <<>>
    /\ op = "init"
    /\ ret = 0

CallNewRect ==
    /\ op' = "NewRect"
    /\ ret' = NewRect(p, lengths)
    /\ UNCHANGED <<Dim, p, r1, r2, lengths, tol, r0, pre, hist>>

CallToRect ==
    /\ op' = "ToRect"
    /\ ret' = ToRect(p, tol)
    /\ UNCHANGED <<Dim, p, r1, r2, lengths, tol, r0, pre, hist>>

NextNew == CallNewRect \/ CallToRect

SpecNew == InitNew /\ [][NextNew]_vars

-----------------------------------------------------------------------------
(* Specification of the operations on two rectangles *)

InitRect ==
    /\ Dim \in Dims
    /\ p = ZeroPoint
    /\ r1 \in Rects(PairCoord)
    /\ r2 \in Rects(PairCoord)
    /\ Idle

\* boundingBox(&r1, &r2)
CallBoundingBox ==
    LET h == boundingBox([r1 |-> r1, r2 |-> r2], "r1", "r2")
    IN /\ op' = "boundingBox"
       /\ ret' = h.r
       /\ r1' = h.r1
       /\ r2' = h.r2
       /\ UNCHANGED <<Dim, p, lengths, tol, r0, pre, hist>>

CallIntersect ==
    /\ op' = "Intersect"
    /\ ret' = Intersect(r1, r2)
    /\ UNCHANGED <<Dim, p, r1, r2, lengths, tol, r0, pre, hist>>

CallContainsRect ==
    /\ op' = "ContainsRect"
    /\ ret' = ContainsRect(r1, r2)
    /\ UNCHANGED <<Dim, p, r1, r2, lengths, tol, r0, pre, hist>>

CallMargin ==
    /\ op' = "margin"
    /\ ret' = margin(r1)
    /\ UNCHANGED <<Dim, p, r1, r2, lengths, tol, r0, pre, hist>>

NextRect == CallBoundingBox \/ CallIntersect \/ CallContainsRect \/ CallMargin

SpecRect == InitRect /\ [][NextRect]_vars

-----------------------------------------------------------------------------
(* Specification of repeated enlarge calls on one rectangle.  enlarge      *)
(* treats each dimension on its own, so this specification fixes the       *)
(* smaller dimensionality.                                                 *)

EnlDims == {2}

InitEnl ==
    /\ Dim \in EnlDims
    /\ p = ZeroPoint
    /\ r1 \in Rects(EnlCoord)
    /\ r2 = ZeroRect
    /\ lengths = ZeroPoint
    /\ tol = 0
    /\ r0 = r1
    /\ pre = r1
    /\ hist = <<>>
    /\ op = "init"
    /\ ret = 0

\* r1.enlarge(&s) for a rectangle s held in r2
CallEnlarge ==
    /\ Len(hist) < MaxCalls
    /\ \E s \in Rects(EnlCoord) :
          LET h == enlarge([r1 |-> r1, r2 |-> s], "r1", "r2")
          IN /\ r1' = h.r1
             /\ r2' = h.r2
             /\ hist' = Append(hist, s)
    /\ pre' = r1
    /\ op' = "enlarge"
    /\ UNCHANGED <<Dim, p, lengths, tol, r0, ret>>

\* r1.enlarge(&r1)
CallEnlargeSelf ==
    /\ r1' = enlarge([r1 |-> r1], "r1", "r1").r1
    /\ pre' = r1
    /\ op' = "enlargeSelf"
    /\ UNCHANGED <<Dim, p, r2, lengths, tol, r0, hist, ret>>

NextEnl == CallEnlarge \/ CallEnlargeSelf

SpecEnl == InitEnl /\ [][NextEnl]_vars

-----------------------------------------------------------------------------
(* Reference definitions used to state the properties of the metrics *)

RECURSIVE SumOver(_, _)
SumOver(f, S) ==
    IF S = {} THEN 0
    ELSE LET x == CHOOSE y \in S : TRUE IN f[x] + SumOver(f, S \ {x})

SetMin(S) == CHOOSE m \in S : \A n \in S : m <= n

WellFormed(r) == \A i \in DimIdx : r.P[i] <= r.Q[i]

\* squared Euclidean distance between two points
SqDist(a, b) == SumOver([i \in DimIdx |-> (a[i] - b[i]) * (a[i] - b[i])], DimIdx)

\* the points with coordinates in 0..MaxCoord that lie in the closed box r
BoxPoints(r) == {x \in Points(MaxCoord) : \A i \in DimIdx : r.P[i] <= x[i] /\ x[i] <= r.Q[i]}

\* the face of r in dimension k on p's side of the midpoint, and the opposite
\* face; atMidLow says which face counts as near when p[k] is the midpoint
NearFace(pt, r, k, atMidLow) ==
    IF 2 * pt[k] < r.P[k] + r.Q[k] \/ (atMidLow /\ 2 * pt[k] = r.P[k] + r.Q[k])
    THEN r.P[k] ELSE r.Q[k]

FarFace(pt, r, k, atMidLow) ==
    IF 2 * pt[k] < r.P[k] + r.Q[k] \/ (atMidLow /\ 2 * pt[k] = r.P[k] + r.Q[k])
    THEN r.Q[k] ELSE r.P[k]

Candidate(pt, r, k, atMidLow) ==
    LET n == pt[k] - NearFace(pt, r, k, atMidLow)
        f == [i \in DimIdx |-> (pt[i] - FarFace(pt, r, i, atMidLow))
                                * (pt[i] - FarFace(pt, r, i, atMidLow))]
    IN n * n + SumOver(f, DimIdx \ {k})

MinCandidate(pt, r, atMidLow) == SetMin({Candidate(pt, r, k, atMidLow) : k \in DimIdx})

-----------------------------------------------------------------------------
(* Properties of the metrics, checked under SpecDist *)

\* C1: for every point p and every well-formed rectangle r,
\* minMaxDist(p, r) >= minDist(p, r), both squared distances.
C1_MinMaxAtLeastMin ==
    /\ op = "minMaxDist" => ret >= minDist(p, r1)
    /\ op = "minDist" => minMaxDist(p, r1) >= ret

\* a point outside the rectangle in one dimension and inside it in another
C1_Witness ==
    /\ op = "minMaxDist"
    /\ WellFormed(r1)
    /\ minDist(p, r1) > 0
    /\ \E i \in DimIdx : r1.P[i] < p[i] /\ p[i] < r1.Q[i]

\* C2: minDist(p, r) is the minimum over the points x of r of the squared
\* distance from p to x, and it is 0 exactly when ContainsPoint(r, p).
C2_MinDistIsExact ==
    /\ op = "minDist" =>
          /\ \E x \in BoxPoints(r1) : SqDist(p, x) = ret
          /\ \A x \in BoxPoints(r1) : SqDist(p, x) >= ret
          /\ (ret = 0) <=> ContainsPoint(r1, p)
    /\ op = "ContainsPoint" => (ret <=> minDist(p, r1) = 0)

\* a point outside a rectangle that has more than one point
C2_Witness ==
    /\ op = "minDist"
    /\ ret > 0
    /\ Cardinality(BoxPoints(r1)) > 1
    /\ \E i \in DimIdx : p[i] = r1.P[i]

\* C3: minMaxDist(p, r) is the minimum over k of
\* (p_k - near_k)^2 + sum over i # k of (p_i - far_i)^2, whichever face is
\* taken as the near one when p_k is exactly the midpoint.
C3_MinMaxDistFormula ==
    op = "minMaxDist" =>
        /\ ret = MinCandidate(p, r1, TRUE)
        /\ ret = MinCandidate(p, r1, FALSE)

\* p at the midpoint of one side of positive length, off the midpoint of another
C3_Witness ==
    /\ op = "minMaxDist"
    /\ \E k \in DimIdx : 2 * p[k] = r1.P[k] + r1.Q[k] /\ r1.P[k] < r1.Q[k]
    /\ \E k \in DimIdx : 2 * p[k] > r1.P[k] + r1.Q[k]
    /\ \E k \in DimIdx : 2 * p[k] < r1.P[k] + r1.Q[k]

-----------------------------------------------------------------------------
(* Properties of the constructors, checked under SpecNew *)

\* C4: every Rect a construction path produces has P[i] <= Q[i] in every
\* dimension: a successful NewRect, and ToRect for any tolerance.
C4_EveryPathWellFormed ==
    /\ (op = "NewRect" /\ ~ret.err.set) => WellFormed(ret.r)
    /\ op = "ToRect" => WellFormed(ret)

\* the dimensions whose length NewRect rejects
Offending == {i \in DimIdx : lengths[i] <= 0}

FirstOffending == CHOOSE i \in Offending : \A j \in Offending : i <= j

\* C5: NewRect(p, lengths) fails exactly when some length is <= 0, the
\* DistError carries the first such length, and otherwise the result is the
\* rectangle with P = p and Q[i] = p[i] + lengths[i].
C5_NewRectResult ==
    op = "NewRect" =>
        /\ ret.err.set <=> Offending # {}
        /\ ret.err.set => ret.err.val = lengths[FirstOffending]
        /\ ~ret.err.set =>
              ret.r = [P |-> p, Q |-> [i \in DimIdx |-> p[i] + lengths[i]]]

\* a failure on a length of zero that is followed by a different bad length
C5_Witness ==
    /\ op = "NewRect"
    /\ ret.err.set
    /\ FirstOffending > 0
    /\ lengths[FirstOffending] = 0
    /\ \E j \in Offending : lengths[j] < 0

\* a Rect whose Q is corner-plus-length in some dimensions and the raw
\* length in others, or that has P[i] > Q[i] somewhere
PartlyBuilt(r) ==
    \/ /\ \E i \in DimIdx : r.Q[i] = p[i] + lengths[i] /\ r.Q[i] # lengths[i]
       /\ \E j \in DimIdx : r.Q[j] = lengths[j] /\ r.Q[j] # p[j] + lengths[j]
    \/ ~WellFormed(r)

\* C6: when NewRect fails, the Rect it hands back with the error is never a
\* partly-built box.
C6_NoPartlyBuiltRect ==
    (op = "NewRect" /\ ret.err.set) => ~PartlyBuilt(ret.r)

-----------------------------------------------------------------------------
(* Properties of the operations on two rectangles, checked under SpecRect *)

Min2(a, b) == IF a <= b THEN a ELSE b
Max2(a, b) == IF a >= b THEN a ELSE b

\* C7: boundingBox(r1, r2) leaves r1 and r2 as they were and returns the
\* rectangle with P[i] = min and Q[i] = max of the inputs' corners: it
\* contains both inputs, every rectangle containing both contains it, and
\* it is the same value with the arguments swapped.
C7_BoundingBox ==
    [][op' = "boundingBox" =>
          /\ r1' = r1
          /\ r2' = r2
          /\ \A i \in DimIdx :
                /\ ret'.P[i] = Min2(r1.P[i], r2.P[i])
                /\ ret'.Q[i] = Max2(r1.Q[i], r2.Q[i])
          /\ ContainsRect(ret', r1)
          /\ ContainsRect(ret', r2)
          /\ \A x \in Rects(PairCoord) :
                (ContainsRect(x, r1) /\ ContainsRect(x, r2)) => ContainsRect(x, ret')
          /\ ret' = boundingBox([r1 |-> r2, r2 |-> r1], "r1", "r2").r
      ]_vars

\* a bounding box that is neither of its inputs
C7_Witness ==
    /\ op = "boundingBox"
    /\ ret # r1
    /\ ret # r2
    /\ ~ContainsRect(r1, r2)
    /\ ~ContainsRect(r2, r1)

\* C8: Intersect(r1, r2) holds exactly when r1.P[i] < r2.Q[i] and
\* r2.P[i] < r1.Q[i] in every dimension, so rectangles that only touch do
\* not intersect, and the result does not depend on the argument order.
C8_IntersectStrict ==
    op = "Intersect" =>
        /\ ret <=> \A i \in DimIdx : r1.P[i] < r2.Q[i] /\ r2.P[i] < r1.Q[i]
        /\ (\E i \in DimIdx : r1.Q[i] = r2.P[i] \/ r2.Q[i] = r1.P[i]) => ~ret
        /\ ret <=> Intersect(r2, r1)

\* two rectangles that share boundary points in one dimension and overlap
\* in the others
C8_Witness ==
    /\ op = "Intersect"
    /\ ~ret
    /\ \E i \in DimIdx :
          /\ r1.Q[i] = r2.P[i]
          /\ r1.P[i] < r1.Q[i]
          /\ \A j \in DimIdx \ {i} : r1.P[j] < r2.Q[j] /\ r2.P[j] < r1.Q[j]

RECURSIVE Pow2(_)
Pow2(n) == IF n = 0 THEN 1 ELSE 2 * Pow2(n - 1)

SideSum(r) == SumOver([i \in DimIdx |-> r.Q[i] - r.P[i]], DimIdx)

\* C9: margin(r) is 2^(Dim-1) times the sum of the side lengths of r, for
\* the dimensionality in use.
C9_MarginFormula ==
    op = "margin" => ret = Pow2(Dim - 1) * SideSum(r1)

-----------------------------------------------------------------------------
(* Properties of repeated enlarge calls, checked under SpecEnl *)

\* s without its i-th element
Without(s, i) == SubSeq(s, 1, i - 1) \o SubSeq(s, i + 1, Len(s))

\* every ordering of the elements of s
RECURSIVE Perms(_)
Perms(s) ==
    IF Len(s) <= 1 THEN {s}
    ELSE UNION {{<<s[i]>> \o t : t \in Perms(Without(s, i))} : i \in 1 .. Len(s)}

RECURSIVE EnlargeSeq(_, _)
EnlargeSeq(r, s) ==
    IF s = <<>> THEN r
    ELSE EnlargeSeq(enlarge([r1 |-> r, r2 |-> Head(s)], "r1", "r2").r1, Tail(s))

\* C10: after any sequence of enlarge calls r contains its initial value
\* and every argument, the result is the same for every order of the calls,
\* a call leaves its argument unchanged, and enlarging r with itself or with
\* a rectangle it already contains leaves r unchanged.  (After a
\* self-enlargement r is the value it had before, for which the order of the
\* calls was already shown not to matter.)
C10_EnlargeSequence ==
    /\ ContainsRect(r1, r0)
    /\ \A j \in 1 .. Len(hist) : ContainsRect(r1, hist[j])
    /\ op = "enlargeSelf" => r1 = pre
    /\ op # "enlargeSelf" => \A s \in Perms(hist) : EnlargeSeq(r0, s) = r1
    /\ op = "enlarge" => r2 = hist[Len(hist)]
    /\ (op = "enlarge" /\ ContainsRect(pre, r2)) => r1 = pre

\* two calls with different arguments, each of which grew the rectangle,
\* followed by a self-enlargement
C10_Witness ==
    /\ op = "enlargeSelf"
    /\ Len(hist) = 2
    /\ hist[1] # hist[2]
    /\ EnlargeSeq(r0, <<hist[1]>>) # r0
    /\ EnlargeSeq(r0, <<hist[1]>>) # r1
    /\ ~ContainsRect(r0, hist[2])
    /\ r1 # hist[2]

====
